---- MODULE Spec2Model ----
(***************************************************************************)
(* SBOMVisualizer (src/sbom-visualizer.js): the dependency graph, the      *)
(* merge engine (updateDependencyGraph), the admission rule                *)
(* (validateSbomForNonForceMode), the history log (saveHistoryState,       *)
(* navigateHistoryBackward/Forward, updateHistoryView) and the handlers    *)
(* that drive them (init/loadSbomData, nextStage, processSelectedSbom and  *)
(* the picker).                                                            *)
(*                                                                         *)
(* A JavaScript Map is a sequence of entries [node, deps] in insertion     *)
(* order; deps is the address of an array in heap, so that two Maps that   *)
(* hold the same array object (new Map(otherMap) copies the entries, not   *)
(* the arrays) see each other's push.                                      *)
(***************************************************************************)
EXTENDS Integers, Sequences, FiniteSets, TLC

VARIABLES
    sbomData,            \* this.sbomData: documents of the fixed sequence loaded so far
    loadPhase,           \* init()'s promise: "loading", "done" (then ran), "failed" (catch ran)
    currentStage,        \* this.currentStage
    uploadedSboms,       \* this.uploadedSboms
    dependencyGraph,     \* this.dependencyGraph (a Map)
    heap,                \* the arrays the Maps refer to: heap[addr] is an array's content
    _currentGraph,       \* this._currentGraph: <<>> when null/undefined, <<map>> otherwise
    historyPosition,     \* this.historyPosition
    historyStates,       \* this.historyStates: entries [dependencyGraph, sbomCount]
    viewingHistory,      \* this.viewingHistory
    selectedSbomFile,    \* this.selectedSbomFile (NoFile when null)
    customFileUpload,    \* this.customFileUpload (NoFile when null)
    nextButtonDisabled,  \* #nextButton.disabled
    pending,             \* processSelectedSbom calls suspended at their await
    nodePositions,       \* this.nodePositions (a Map): entries [node, pos] in insertion order
    containerRect,       \* #graphContainer's getBoundingClientRect(): [width, height]
    sbom                 \* the sbom of updateDependencyGraph(sbom): the document merged last, or next

vars == <<sbomData, loadPhase, currentStage, uploadedSboms, dependencyGraph, heap,
          _currentGraph, historyPosition, historyStates, viewingHistory,
          selectedSbomFile, customFileUpload,
          nextButtonDisabled, pending, nodePositions, containerRect, sbom>>

(***************************************************************************)
(* Identifiers and documents                                               *)
(***************************************************************************)
NoFile == "null"
NoSbom == [dependencies |-> <<>>, forceMode |-> FALSE, loaded |-> FALSE]

\* One element of sbom.dependencies.
Dep(ref, dependsOn) == [ref |-> ref, dependsOn |-> dependsOn]

\* An element of sbom.dependencies that has no dependsOn property
Malformed(dep) == "dependsOn" \notin DOMAIN dep

\* A loaded document with the forceMode flag the loader stamps on it.
Sbom(dependencies, forceMode) ==
    [dependencies |-> dependencies, forceMode |-> forceMode, loaded |-> TRUE]

(***************************************************************************)
(* Map and Array primitives                                                *)
(***************************************************************************)
\* Map.prototype.has
MapHas(m, k) == \E i \in 1..Len(m) : m[i].node = k

\* Map.prototype.get, on a key the Map has: the address of the array
MapGet(m, k) == m[CHOOSE i \in 1..Len(m) : m[i].node = k].deps

\* Map.prototype.set: an existing key keeps its place, a new key goes last
MapSet(m, k, addr) ==
    IF MapHas(m, k)
    THEN [i \in 1..Len(m) |-> IF m[i].node = k THEN [node |-> k, deps |-> addr] ELSE m[i]]
    ELSE Append(m, [node |-> k, deps |-> addr])

\* Array.prototype.includes
Includes(arr, x) == \E i \in 1..Len(arr) : arr[i] = x

\* The keys of a Map, in insertion order
MapKeys(m) == [i \in 1..Len(m) |-> m[i].node]

\* The Map as a value: every entry with the content of its array
Deref(m, h) == [i \in 1..Len(m) |-> [node |-> m[i].node, deps |-> h[m[i].deps]]]

\* The dependency list of key k in a Map value
ListOf(g, k) == g[CHOOSE i \in 1..Len(g) : g[i].node = k].deps

KeySet(g) == {g[i].node : i \in 1..Len(g)}

SetOf(s) == {s[i] : i \in 1..Len(s)}

\* the elements of s at the positions in idx, in the order of s
Pick(s, idx) ==
    [k \in 1..Cardinality(idx) |->
        s[CHOOSE i \in idx : Cardinality({j \in idx : j <= i}) = k]]

(***************************************************************************)
(* updateDependencyGraph                                                   *)
(***************************************************************************)
\* dep.dependsOn.forEach(dependency => if (!includes) push): appends without the check
PushAlways(arr, dependsOn) == arr \o dependsOn

\* dep.dependsOn.forEach(dependency => { if (!get(ref).includes(dependency)) push })
RECURSIVE PushNew(_, _)
PushNew(arr, dependsOn) ==
    IF dependsOn = <<>> THEN arr
    ELSE PushNew(IF Includes(arr, Head(dependsOn)) THEN arr ELSE Append(arr, Head(dependsOn)),
                 Tail(dependsOn))

\* if (!this.dependencyGraph.has(dep.ref)) this.dependencyGraph.set(dep.ref, [])
EnsureKey(gh, ref) ==
    IF MapHas(gh.g, ref) THEN gh
    ELSE [g |-> MapSet(gh.g, ref, Len(gh.h) + 1), h |-> Append(gh.h, <<>>)]

\* Force branch that pushes onto the existing array instead of replacing it
ForceEdgeAppend(gh, dep) ==
    [g |-> gh.g, h |-> [gh.h EXCEPT ![MapGet(gh.g, dep.ref)] = @ \o dep.dependsOn]]

\* this.dependencyGraph.set(dep.ref, [...dep.dependsOn])
ForceEdge(gh, dep) ==
    [g |-> MapSet(gh.g, dep.ref, Len(gh.h) + 1), h |-> Append(gh.h, dep.dependsOn)]

\* the regular branch: push every dependency the array does not include yet
RegularEdge(gh, dep) ==
    [g |-> gh.g, h |-> [gh.h EXCEPT ![MapGet(gh.g, dep.ref)] = PushNew(@, dep.dependsOn)]]

\* a body that creates no key for an element whose dependsOn is empty
UpdateEdgeSkipsEmpty(gh, dep, isForceMode) ==
    IF dep.dependsOn = <<>> /\ ~MapHas(gh.g, dep.ref) THEN gh
    ELSE IF isForceMode THEN ForceEdge(EnsureKey(gh, dep.ref), dep)
    ELSE RegularEdge(EnsureKey(gh, dep.ref), dep)

\* the body of sbom.dependencies.forEach(dep => ...)
UpdateEdge(gh, dep, isForceMode) ==
    IF isForceMode THEN ForceEdge(EnsureKey(gh, dep.ref), dep)
    ELSE RegularEdge(EnsureKey(gh, dep.ref), dep)

\* forEach stops at the first element without dependsOn: its key has been created when
\* [...dep.dependsOn] or dep.dependsOn.forEach throws the TypeError
RECURSIVE UpdateEdges(_, _, _)
UpdateEdges(gh, dependencies, isForceMode) ==
    IF dependencies = <<>> THEN gh
    ELSE IF Malformed(Head(dependencies)) THEN EnsureKey(gh, Head(dependencies).ref)
    ELSE UpdateEdges(UpdateEdge(gh, Head(dependencies), isForceMode),
                     Tail(dependencies), isForceMode)

\* updateDependencyGraph(sbom) throws
UpdateThrows(doc) == \E i \in 1..Len(doc.dependencies) : Malformed(doc.dependencies[i])

\* updateDependencyGraph(sbom) on the Map g and the heap h
updateDependencyGraph(g, h, doc) ==
    UpdateEdges([g |-> g, h |-> h], doc.dependencies, doc.forceMode = TRUE)

(***************************************************************************)
(* validateSbomForNonForceMode                                             *)
(***************************************************************************)
\* the rule without its length comparison
WouldModifyNoLength(existingDeps, newDeps) ==
    \E i \in 1..Len(newDeps) : ~Includes(existingDeps, newDeps[i])

\* the rule with only its length comparison
WouldModifyOnlyLength(existingDeps, newDeps) ==
    Len(existingDeps) # Len(newDeps)

\* newDeps.some(newDep => !existingDeps.includes(newDep)) || lengths differ
WouldModify(existingDeps, newDeps) ==
    \/ \E i \in 1..Len(newDeps) : ~Includes(existingDeps, newDeps[i])
    \/ Len(existingDeps) # Len(newDeps)

\* the loop body that treats a missing node as a node with no dependencies
EdgeRejectedNoHas(g, h, dep) ==
    WouldModify(IF MapHas(g, dep.ref) THEN h[MapGet(g, dep.ref)] ELSE <<>>, dep.dependsOn)

\* the loop body: only a node the graph already has can be rejected
EdgeRejected(g, h, dep) ==
    /\ MapHas(g, dep.ref)
    /\ WouldModify(h[MapGet(g, dep.ref)], dep.dependsOn)

NoMessage == [kind |-> "none", node |-> "null"]
ModifyMessage(nodeRef) == [kind |-> "modify", node |-> nodeRef]

\* the loop body throws: newDeps.some(...) on an existing node whose element has no
\* dependsOn
EdgeThrows(g, dep) == Malformed(dep) /\ MapHas(g, dep.ref)

\* validateSbomForNonForceMode(sbom): {valid, message}; the loop returns at the first
\* rejected edge, or throws (threw) at the first edge it cannot read
validateSbomForNonForceMode(g, h, doc) ==
    IF Len(g) = 0 THEN [valid |-> TRUE, message |-> NoMessage, threw |-> FALSE]
    ELSE LET bad == {i \in 1..Len(doc.dependencies) :
                        IF Malformed(doc.dependencies[i]) THEN EdgeThrows(g, doc.dependencies[i])
                        ELSE EdgeRejected(g, h, doc.dependencies[i])}
         IN IF bad = {} THEN [valid |-> TRUE, message |-> NoMessage, threw |-> FALSE]
            ELSE LET first == CHOOSE i \in bad : \A j \in bad : i <= j
                 IN IF Malformed(doc.dependencies[first])
                    THEN [valid |-> FALSE, message |-> NoMessage, threw |-> TRUE]
                    ELSE [valid |-> FALSE, message |-> ModifyMessage(doc.dependencies[first].ref),
                          threw |-> FALSE]

(***************************************************************************)
(* Bounds and inputs of the whole-program specification                    *)
(***************************************************************************)
\* The fixed sequence has 5 regular files and 1 force file; the model loads fewer.
NumRegularFiles == 1
NumForceFiles == 1
NumFiles == NumRegularFiles + NumForceFiles

MaxMerges == 2       \* documents merged in one run
MaxPending == 1      \* processSelectedSbom calls waiting for their load at once

\* What a fetch or a file read can deliver: the "dependencies" of the document
RawDocs ==
    { <<>>,
      <<Dep("a", <<"b">>)>>,
      <<Dep("a", <<"c">>)>>,
      <<Dep("a", <<"b">>), Dep("b", <<"a">>)>>,
      <<Dep("b", <<"a">>), [ref |-> "a"]>> }

\* What the files of the fixed sequence can hold
StageDocs ==
    { <<Dep("a", <<"b">>)>>,
      <<Dep("a", <<"c">>)>> }

\* The entries of availableSbomFiles the picker lists (by path)
AvailableSbomFiles == {"examples/Stage1.json"}

\* The File object of the <input type="file">
UploadFile == "upload.json"

\* The size of #graphContainer in the page
PageRect == [width |-> 300, height |-> 300]

(***************************************************************************)
(* The object's state as one record, and the methods as functions on it    *)
(***************************************************************************)
Cur ==
    [sbomData |-> sbomData, loadPhase |-> loadPhase, currentStage |-> currentStage,
     uploadedSboms |-> uploadedSboms, dependencyGraph |-> dependencyGraph, heap |-> heap,
     _currentGraph |-> _currentGraph, historyPosition |-> historyPosition,
     historyStates |-> historyStates, viewingHistory |-> viewingHistory,
     selectedSbomFile |-> selectedSbomFile, customFileUpload |-> customFileUpload,
     nextButtonDisabled |-> nextButtonDisabled, pending |-> pending,
     nodePositions |-> nodePositions, containerRect |-> containerRect,
     sbom |-> sbom]

\* The state after the constructor, before any fetch has answered
Constructed ==
    [sbomData |-> <<>>, loadPhase |-> "loading", currentStage |-> -1,
     uploadedSboms |-> <<>>, dependencyGraph |-> <<>>, heap |-> <<>>,
     _currentGraph |-> <<>>, historyPosition |-> -1,
     historyStates |-> <<>>, viewingHistory |-> FALSE,
     selectedSbomFile |-> NoFile, customFileUpload |-> NoFile,
     nextButtonDisabled |-> FALSE, pending |-> <<>>,
     nodePositions |-> <<>>, containerRect |-> PageRect,
     sbom |-> NoSbom]

\* The addresses a Map holds, in entry order
Refs(m) == [i \in 1..Len(m) |-> m[i].deps]

RECURSIVE Flatten(_)
Flatten(ss) == IF ss = <<>> THEN <<>> ELSE Head(ss) \o Flatten(Tail(ss))

RECURSIVE Distinct(_, _)
Distinct(seq, acc) ==
    IF seq = <<>> THEN acc
    ELSE Distinct(Tail(seq), IF Includes(acc, Head(seq)) THEN acc ELSE Append(acc, Head(seq)))

Rename(m, live) ==
    [i \in 1..Len(m) |->
        [node |-> m[i].node, deps |-> CHOOSE j \in 1..Len(live) : live[j] = m[i].deps]]

\* Garbage collection: arrays no Map refers to are dropped and the live ones are
\* numbered in the order the object reaches them.
Collect(st) ==
    LET live == Distinct(Refs(st.dependencyGraph)
                         \o Flatten([i \in 1..Len(st._currentGraph) |-> Refs(st._currentGraph[i])])
                         \o Flatten([i \in 1..Len(st.historyStates) |->
                                        Refs(st.historyStates[i].dependencyGraph)]),
                         <<>>)
    IN [st EXCEPT
          !.heap = [j \in 1..Len(live) |-> st.heap[live[j]]],
          !.dependencyGraph = Rename(@, live),
          !._currentGraph = [i \in 1..Len(@) |-> Rename(@[i], live)],
          !.historyStates = [i \in 1..Len(@) |->
                               [@[i] EXCEPT !.dependencyGraph = Rename(@, live)]]]

(***************************************************************************)
(* calculateNodeLevels and calculateNodePositions, on a Map value g        *)
(***************************************************************************)
\* hasIncoming: every id that is in some dependency list
HasIncoming(g) == UNION {SetOf(g[i].deps) : i \in 1..Len(g)}

\* allNodes: the keys and the ids in the lists
AllNodes(g) == KeySet(g) \cup HasIncoming(g)

\* roots that are all the keys
RootsAllKeys(g) == MapKeys(g)

\* roots: the keys without incoming edge, in key order
Roots(g) == Pick(MapKeys(g), {i \in 1..Len(g) : g[i].node \notin HasIncoming(g)})

\* the nodes a levels Map has
Levelled(levels) == {levels[i].node : i \in 1..Len(levels)}

\* a traversal that takes the dependencies of a node before the rest of the queue
RECURSIVE TraverseDepthFirst(_, _, _)
TraverseDepthFirst(g, queue, levels) ==
    IF queue = <<>> THEN levels
    ELSE LET item == Head(queue)
         IN IF item.node \in {levels[i].node : i \in 1..Len(levels)}
            THEN TraverseDepthFirst(g, Tail(queue), levels)
            ELSE LET dependencies == IF item.node \in KeySet(g) THEN ListOf(g, item.node)
                                     ELSE <<>>
                 IN TraverseDepthFirst(g,
                        [i \in 1..Len(dependencies) |->
                            [node |-> dependencies[i], level |-> item.level + 1]]
                        \o Tail(queue),
                        Append(levels, [node |-> item.node, level |-> item.level]))

\* the while loop over the queue: levels is the Map under construction, in insertion
\* order, and its keys are the visited set
RECURSIVE Traverse(_, _, _)
Traverse(g, queue, levels) ==
    IF queue = <<>> THEN levels
    ELSE LET item == Head(queue)
         IN IF item.node \in Levelled(levels) THEN Traverse(g, Tail(queue), levels)
            ELSE LET dependencies == IF item.node \in KeySet(g) THEN ListOf(g, item.node)
                                     ELSE <<>>
                     unvisited == Pick(dependencies,
                                       {i \in 1..Len(dependencies) :
                                           dependencies[i] \notin Levelled(levels) \cup {item.node}})
                 IN Traverse(g,
                             Tail(queue) \o [i \in 1..Len(unvisited) |->
                                               [node |-> unvisited[i], level |-> item.level + 1]],
                             Append(levels, item))

\* level assignment without the final loop over the keys
calculateNodeLevelsNoDefault(g) ==
    LET roots == Roots(g)
    IN Traverse(g, [i \in 1..Len(roots) |-> [node |-> roots[i], level |-> 0]], <<>>)

\* calculateNodeLevels(): breadth-first from the roots, then level 0 for the keys that
\* were not reached
calculateNodeLevels(g) ==
    LET roots == Roots(g)
        reached == Traverse(g, [i \in 1..Len(roots) |-> [node |-> roots[i], level |-> 0]], <<>>)
        rest == Pick(MapKeys(g), {i \in 1..Len(g) : g[i].node \notin Levelled(reached)})
    IN reached \o [i \in 1..Len(rest) |-> [node |-> rest[i], level |-> 0]]

\* levels.get(n)
LevelOf(levels, n) == levels[CHOOSE i \in 1..Len(levels) : levels[i].node = n].level

RECURSIVE GCD(_, _)
GCD(m, n) == IF n = 0 THEN m ELSE GCD(n, m % n)

\* the number num / den, in lowest terms
Ratio(num, den) == [num |-> num \div GCD(num, den), den |-> den \div GCD(num, den)]

\* coordinates that count the nodes of a level from 0
CoordinatesFromZero(index, n, level, maxLevel, width, height) ==
    [x |-> Ratio(50 * (n + 1) + index * width, n + 1),
     y |-> Ratio(50 * (maxLevel + 1) + level * height, maxLevel + 1)]

\* { x, y } of the node at position index (from 0) among the n nodes of its level:
\* x = 50 + (index + 1) * (width / (n + 1)), y = 50 + level * (height / (maxLevel + 1)),
\* as exact fractions
Coordinates(index, n, level, maxLevel, width, height) ==
    [x |-> Ratio(50 * (n + 1) + (index + 1) * width, n + 1),
     y |-> Ratio(50 * (maxLevel + 1) + level * height, maxLevel + 1)]

\* nodesByLevel.get(level): the nodes of the levels Map at level, in its order
RECURSIVE NodesAtLevel(_, _)
NodesAtLevel(levels, level) ==
    IF levels = <<>> THEN <<>>
    ELSE IF Head(levels).level = level
         THEN <<Head(levels).node>> \o NodesAtLevel(Tail(levels), level)
         ELSE NodesAtLevel(Tail(levels), level)

\* the keys of nodesByLevel, in the order the levels Map first has each level
RECURSIVE LevelKeys(_, _)
LevelKeys(levels, acc) ==
    IF levels = <<>> THEN acc
    ELSE LevelKeys(Tail(levels),
                   IF Includes(acc, Head(levels).level) THEN acc
                   ELSE Append(acc, Head(levels).level))

\* Math.max(...levels.values()), from m on
RECURSIVE MaxOf(_, _)
MaxOf(levels, m) ==
    IF levels = <<>> THEN m
    ELSE MaxOf(Tail(levels), IF Head(levels).level > m THEN Head(levels).level ELSE m)

\* nodesByLevel.forEach((nodes, level) => nodes.forEach((node, index) => set(node, {x, y})))
RECURSIVE PlaceLevels(_, _, _, _, _)
PlaceLevels(keys, levels, maxLevel, width, height) ==
    IF keys = <<>> THEN <<>>
    ELSE LET nodes == NodesAtLevel(levels, Head(keys))
         IN [k \in 1..Len(nodes) |->
               [node |-> nodes[k],
                pos |-> Coordinates(k - 1, Len(nodes), Head(keys), maxLevel, width, height)]]
            \o PlaceLevels(Tail(keys), levels, maxLevel, width, height)

\* calculateNodePositions(): the nodePositions.set(node, {x, y}) calls it makes, in
\* order: level by level in the order the levels Map first has each level, the nodes
\* of a level in the order of the levels Map. width and height are the container's
\* less 100
calculateNodePositions(g, rect) ==
    LET levels == calculateNodeLevels(g)
    IN PlaceLevels(LevelKeys(levels, <<>>), levels, MaxOf(levels, 0),
                   rect.width - 100, rect.height - 100)

\* this.nodePositions.set(node, pos) for each entry of sets, in order
RECURSIVE SetAll(_, _)
SetAll(positions, sets) ==
    IF sets = <<>> THEN positions
    ELSE LET e == Head(sets)
             at == {i \in 1..Len(positions) : positions[i].node = e.node}
         IN SetAll(IF at = {} THEN Append(positions, e)
                   ELSE [i \in 1..Len(positions) |-> IF i \in at THEN e ELSE positions[i]],
                   Tail(sets))

\* renderGraph(): nothing is computed for an empty graph; nodePositions is not cleared
renderGraph(st) ==
    IF Len(st.dependencyGraph) = 0 THEN st
    ELSE [st EXCEPT !.nodePositions =
            SetAll(@, calculateNodePositions(Deref(st.dependencyGraph, st.heap),
                                             st.containerRect))]

\* this.uploadedSboms.push(doc); this.updateDependencyGraph(doc)
PushAndUpdate(st, doc) ==
    LET gh == updateDependencyGraph(st.dependencyGraph, st.heap, doc)
    IN [st EXCEPT !.uploadedSboms = Append(@, doc),
                  !.dependencyGraph = gh.g,
                  !.heap = gh.h,
                  !.sbom = doc]

\* saveHistoryState that never truncates
saveHistoryStateNoTruncate(st) ==
    LET dg == st.dependencyGraph
        base == Len(st.heap)
        graphCopy == [i \in 1..Len(dg) |-> [node |-> dg[i].node, deps |-> base + i]]
        state == [dependencyGraph |-> graphCopy, sbomCount |-> Len(st.uploadedSboms)]
    IN [st EXCEPT
          !.heap = @ \o [i \in 1..Len(dg) |-> st.heap[dg[i].deps]],
          !.dependencyGraph = IF st.viewingHistory /\ st._currentGraph # <<>>
                              THEN st._currentGraph[1] ELSE @,
          !._currentGraph = IF st.viewingHistory THEN <<>> ELSE @,
          !.viewingHistory = FALSE,
          !.historyStates = Append(@, state),
          !.historyPosition = Len(st.historyStates)]

\* saveHistoryState(): graphCopy gets a new array per key; a state seen while viewing
\* history puts _currentGraph back and cuts the log after historyPosition
saveHistoryState(st) ==
    LET dg == st.dependencyGraph
        base == Len(st.heap)
        graphCopy == [i \in 1..Len(dg) |-> [node |-> dg[i].node, deps |-> base + i]]
        state == [dependencyGraph |-> graphCopy, sbomCount |-> Len(st.uploadedSboms)]
        kept == IF st.viewingHistory
                THEN SubSeq(st.historyStates, 1, st.historyPosition + 1)
                ELSE st.historyStates
    IN [st EXCEPT
          !.heap = @ \o [i \in 1..Len(dg) |-> st.heap[dg[i].deps]],
          !.dependencyGraph = IF st.viewingHistory /\ st._currentGraph # <<>>
                              THEN st._currentGraph[1] ELSE @,
          !._currentGraph = IF st.viewingHistory THEN <<>> ELSE @,
          !.viewingHistory = FALSE,
          !.historyStates = Append(kept, state),
          !.historyPosition = Len(kept)]

\* updateDisplay(): updateNextSbom() sets nextButton.disabled, then renderGraph()
updateDisplay(st) ==
    renderGraph([st EXCEPT !.nextButtonDisabled =
                    IF Len(st.sbomData) = 0 THEN TRUE
                    ELSE ~(st.currentStage < Len(st.sbomData) - 1)])

\* updateHistoryView(): the displayed Map becomes new Map(historicalState.dependencyGraph),
\* which holds the entry's own arrays; nodePositions is emptied before renderGraph()
updateHistoryView(st) ==
    IF st.historyPosition < 0 \/ st.historyPosition >= Len(st.historyStates) THEN st
    ELSE [renderGraph([st EXCEPT
                !.dependencyGraph = st.historyStates[st.historyPosition + 1].dependencyGraph,
                !.nodePositions = <<>>])
          EXCEPT !._currentGraph = IF st.viewingHistory THEN <<st.dependencyGraph>> ELSE <<>>]

\* navigateHistoryBackward without its test of historyPosition
navigateHistoryBackwardUnguarded(st) ==
    updateHistoryView([st EXCEPT !.historyPosition = @ - 1, !.viewingHistory = TRUE])

navigateHistoryBackward(st) ==
    IF st.historyPosition <= 0 THEN st
    ELSE updateHistoryView([st EXCEPT !.historyPosition = @ - 1, !.viewingHistory = TRUE])

\* a stepForward that leaves viewingHistory set when it arrives at the tip
navigateHistoryForwardStaysViewing(st) ==
    IF st.historyPosition >= Len(st.historyStates) - 1 THEN st
    ELSE updateHistoryView([st EXCEPT !.historyPosition = @ + 1])

navigateHistoryForward(st) ==
    IF st.historyPosition >= Len(st.historyStates) - 1 THEN st
    ELSE updateHistoryView(
            [st EXCEPT !.historyPosition = @ + 1,
                       !.viewingHistory = IF st.historyPosition + 1 = Len(st.historyStates) - 1
                                          THEN FALSE ELSE @])

\* a nextStage() that takes its snapshot before it pushes and merges
nextStageSnapshotFirst(st) ==
    LET stage == st.currentStage + 1
        doc == st.sbomData[stage + 1]
    IN updateDisplay(PushAndUpdate(
          saveHistoryState([st EXCEPT !.currentStage = stage]), doc))

\* nextStage(), the branch that merges
nextStage(st) ==
    LET stage == st.currentStage + 1
        doc == st.sbomData[stage + 1]
    IN updateDisplay(saveHistoryState(
          PushAndUpdate([st EXCEPT !.currentStage = stage], doc)))

\* a click handler that merges the last document again when there is no next one
nextStageOrRepeat(st) ==
    IF Len(st.sbomData) > 0 /\ st.currentStage < Len(st.sbomData) - 1 THEN nextStage(st)
    ELSE IF Len(st.sbomData) > 0 THEN nextStage([st EXCEPT !.currentStage = @ - 1])
    ELSE st

\* nextStage(), whole: it merges when the data is loaded and there is a next stage,
\* and otherwise changes nothing (it warns when no data is loaded)
nextStageOrSkip(st) ==
    IF Len(st.sbomData) > 0 /\ st.currentStage < Len(st.sbomData) - 1 THEN nextStage(st)
    ELSE st

\* the then-callback of init(): updateDisplay(), saveHistoryState()
initThen(st) ==
    saveHistoryState(updateDisplay([st EXCEPT !.loadPhase = "done"]))

\* loadSbomData(), one file answered: stamp forceMode, push; after the last file the
\* then-callback runs in the same turn of the event loop
fileLoaded(st, raw) ==
    LET doc == Sbom(raw, Len(st.sbomData) >= NumRegularFiles)
        st1 == [st EXCEPT !.sbomData = Append(@, doc)]
    IN IF Len(st1.sbomData) = NumFiles THEN initThen(st1) ELSE st1

\* processSelectedSbom() up to its await: without a selection it only shows a message
processSelectedSbomStart(st, isForceMode) ==
    IF st.selectedSbomFile = NoFile /\ st.customFileUpload = NoFile
    THEN st
    ELSE [st EXCEPT !.pending = Append(@, [isForceMode |-> isForceMode,
                                           listed |-> st.selectedSbomFile # NoFile,
                                           source |-> IF st.selectedSbomFile # NoFile
                                                      THEN st.selectedSbomFile
                                                      ELSE st.customFileUpload])]

RemoveAt(s, i) == SubSeq(s, 1, i - 1) \o SubSeq(s, i + 1, Len(s))

\* the console.log after the await reads this.selectedSbomFile.path (or
\* this.customFileUpload.name) again: a TypeError when the picker has reset it meanwhile
LogThrows(st, i) ==
    IF st.pending[i].listed THEN st.selectedSbomFile = NoFile
    ELSE st.customFileUpload = NoFile

\* processSelectedSbom() after its await that pushes the document before validating it
processSelectedSbomLoadedPushFirst(st, i, raw) ==
    LET doc == Sbom(raw, st.pending[i].isForceMode)
        st1 == [st EXCEPT !.pending = RemoveAt(@, i)]
        res == validateSbomForNonForceMode(st.dependencyGraph, st.heap, doc)
    IN IF LogThrows(st, i) THEN st1
       ELSE IF ~doc.forceMode /\ ~res.valid
       THEN [st1 EXCEPT !.uploadedSboms = Append(@, doc)]
       ELSE IF UpdateThrows(doc) THEN PushAndUpdate(st1, doc)
       ELSE updateDisplay(saveHistoryState(
                PushAndUpdate(st1, doc)))

\* processSelectedSbom() after its await, the load having delivered raw: log (the catch
\* takes a throw), stamp the checkbox's forceMode, validate unless forced (thrown or
\* invalid: nothing more happens), then push and merge (the catch takes a throw of the
\* merge, after the push), snapshot, redraw
processSelectedSbomLoaded(st, i, raw) ==
    LET doc == Sbom(raw, st.pending[i].isForceMode)
        st1 == [st EXCEPT !.pending = RemoveAt(@, i)]
        res == validateSbomForNonForceMode(st.dependencyGraph, st.heap, doc)
    IN IF LogThrows(st, i) THEN st1
       ELSE IF ~doc.forceMode /\ ~res.valid
       THEN st1
       ELSE IF UpdateThrows(doc) THEN PushAndUpdate(st1, doc)
       ELSE updateDisplay(saveHistoryState(
                PushAndUpdate(st1, doc)))

\* a catch that starts the load again
processSelectedSbomFailedRetry(st, i) == st

\* processSelectedSbom() after its await, the load having thrown: the catch shows a message
processSelectedSbomFailed(st, i) ==
    [st EXCEPT !.pending = RemoveAt(@, i)]

openCustomUploadPopup(st) ==
    [st EXCEPT !.selectedSbomFile = NoFile, !.customFileUpload = NoFile]

\* the click listener of a .sbom-file-item
selectListed(st, path) ==
    [st EXCEPT !.selectedSbomFile = path, !.customFileUpload = NoFile]

\* a change listener that leaves the listed selection in place
selectUploadKeepsListed(st, file) ==
    [st EXCEPT !.customFileUpload = file]

\* the change listener of #sbomFileUpload
selectUpload(st, file) ==
    [st EXCEPT !.customFileUpload = file, !.selectedSbomFile = NoFile]

(***************************************************************************)
(* The program: one action per event                                       *)
(***************************************************************************)
Becomes(st) ==
    /\ sbomData' = st.sbomData
    /\ loadPhase' = st.loadPhase
    /\ currentStage' = st.currentStage
    /\ uploadedSboms' = st.uploadedSboms
    /\ dependencyGraph' = st.dependencyGraph
    /\ heap' = st.heap
    /\ _currentGraph' = st._currentGraph
    /\ historyPosition' = st.historyPosition
    /\ historyStates' = st.historyStates
    /\ viewingHistory' = st.viewingHistory
    /\ selectedSbomFile' = st.selectedSbomFile
    /\ customFileUpload' = st.customFileUpload
    /\ nextButtonDisabled' = st.nextButtonDisabled
    /\ pending' = st.pending
    /\ nodePositions' = st.nodePositions
    /\ containerRect' = st.containerRect
    /\ sbom' = st.sbom

Starts(st) ==
    /\ sbomData = st.sbomData
    /\ loadPhase = st.loadPhase
    /\ currentStage = st.currentStage
    /\ uploadedSboms = st.uploadedSboms
    /\ dependencyGraph = st.dependencyGraph
    /\ heap = st.heap
    /\ _currentGraph = st._currentGraph
    /\ historyPosition = st.historyPosition
    /\ historyStates = st.historyStates
    /\ viewingHistory = st.viewingHistory
    /\ selectedSbomFile = st.selectedSbomFile
    /\ customFileUpload = st.customFileUpload
    /\ nextButtonDisabled = st.nextButtonDisabled
    /\ pending = st.pending
    /\ nodePositions = st.nodePositions
    /\ containerRect = st.containerRect
    /\ sbom = st.sbom

Init == Starts(Constructed)

FileLoaded ==
    /\ loadPhase = "loading"
    /\ \E raw \in StageDocs : \E st \in {Collect(fileLoaded(Cur, raw))} : Becomes(st)

FileFailed ==
    /\ loadPhase = "loading"
    /\ \E st \in {[Cur EXCEPT !.loadPhase = "failed"]} : Becomes(st)

NextStage ==
    /\ ~nextButtonDisabled
    /\ Len(sbomData) > 0 /\ currentStage < Len(sbomData) - 1
    /\ Len(uploadedSboms) < MaxMerges
    /\ \E st \in {Collect(nextStageOrSkip(Cur))} : Becomes(st)

NavigateHistoryBackward ==
    /\ historyPosition > 0
    /\ \E st \in {Collect(navigateHistoryBackward(Cur))} : Becomes(st)

NavigateHistoryForward ==
    /\ historyPosition < Len(historyStates) - 1
    /\ \E st \in {Collect(navigateHistoryForward(Cur))} : Becomes(st)

OpenCustomUploadPopup ==
    \E st \in {openCustomUploadPopup(Cur)} : Becomes(st)

SelectListed ==
    \E path \in AvailableSbomFiles : \E st \in {selectListed(Cur, path)} : Becomes(st)

SelectUpload ==
    \E st \in {selectUpload(Cur, UploadFile)} : Becomes(st)

ProcessSelectedSbom ==
    /\ selectedSbomFile # NoFile \/ customFileUpload # NoFile
    /\ Len(pending) < MaxPending
    /\ \E isForceMode \in BOOLEAN :
         \E st \in {processSelectedSbomStart(Cur, isForceMode)} : Becomes(st)

SbomLoaded ==
    \E i \in 1..Len(pending) : \E raw \in RawDocs :
        /\ \/ Len(uploadedSboms) < MaxMerges
           \/ LogThrows(Cur, i)
           \/ /\ ~pending[i].isForceMode
              /\ ~validateSbomForNonForceMode(dependencyGraph, heap, Sbom(raw, FALSE)).valid
        /\ \E st \in {Collect(processSelectedSbomLoaded(Cur, i, raw))} : Becomes(st)

SbomLoadFailed ==
    \E i \in 1..Len(pending) :
        \E st \in {processSelectedSbomFailed(Cur, i)} : Becomes(st)

Next ==
    \/ FileLoaded
    \/ FileFailed
    \/ NextStage
    \/ NavigateHistoryBackward
    \/ NavigateHistoryForward
    \/ OpenCustomUploadPopup
    \/ SelectListed
    \/ SelectUpload
    \/ ProcessSelectedSbom
    \/ SbomLoaded
    \/ SbomLoadFailed

Spec == Init /\ [][Next]_vars

(***************************************************************************)
(* The merge engine and the admission rule on their own: Init draws a      *)
(* graph and a document, the one action is the push-and-merge both callers *)
(* perform (lines 541-542 and 648-649).                                    *)
(***************************************************************************)
MergeIds == {"a", "b"}

MaxDocSize == 4      \* edges plus dependency entries of a drawn document
MaxGraphSize == 4    \* keys plus dependency entries of a drawn graph

SeqsUpTo(S, n) == UNION {[1..k -> S] : k \in 0..n}

\* the edges whose size (1 + number of dependencies) is at most n
EdgesUpTo(n) == {Dep(r, ds) : r \in MergeIds, ds \in SeqsUpTo(MergeIds, n - 1)}

\* the edge lists of total size at most n
RECURSIVE DependenciesUpTo(_)
DependenciesUpTo(n) ==
    IF n <= 0 THEN {<<>>}
    ELSE {<<>>} \cup
         UNION {{<<e>> \o rest : rest \in DependenciesUpTo(n - 1 - Len(e.dependsOn))} :
                e \in EdgesUpTo(n)}

\* a Map has one entry per key
DistinctRefs(deps) == \A i, j \in 1..Len(deps) : deps[i].ref = deps[j].ref => i = j

DrawnGraphs == {deps \in DependenciesUpTo(MaxGraphSize) : DistinctRefs(deps)}

DrawnSboms == {Sbom(deps, f) : deps \in DependenciesUpTo(MaxDocSize), f \in BOOLEAN}

\* the object holding the drawn graph, every key with an array of its own
Holding(deps, doc) ==
    [Constructed EXCEPT
        !.dependencyGraph = [i \in 1..Len(deps) |-> [node |-> deps[i].ref, deps |-> i]],
        !.heap = [i \in 1..Len(deps) |-> deps[i].dependsOn],
        !.sbom = doc]

InitMerge == \E deps \in DrawnGraphs : \E doc \in DrawnSboms : Starts(Holding(deps, doc))

MergeSbom ==
    /\ sbom.loaded
    /\ uploadedSboms = <<>>
    /\ \E st \in {Collect(PushAndUpdate(Cur, sbom))} : Becomes(st)

NextMerge == MergeSbom

SpecMerge == InitMerge /\ [][NextMerge]_vars

(***************************************************************************)
(* Vocabulary of the properties                                            *)
(***************************************************************************)
\* the displayed graph as a value
Graph == Deref(dependencyGraph, heap)

IsPrefix(s, t) == Len(s) <= Len(t) /\ SubSeq(t, 1, Len(s)) = s

\* the ids of toIds that are not in list, each once, where it is first seen
FirstSeen(list, toIds) ==
    Pick(toIds, {i \in 1..Len(toIds) :
                    /\ toIds[i] \notin SetOf(list)
                    /\ \A j \in 1..(i - 1) : toIds[j] # toIds[i]})

\* the step just taken pushed and merged the document sbom'
Merged == uploadedSboms' = Append(uploadedSboms, sbom') /\ sbom'.loaded

UniqueToIds(doc) ==
    \A e \in 1..Len(doc.dependencies) :
        \A i, j \in 1..Len(doc.dependencies[e].dependsOn) :
            doc.dependencies[e].dependsOn[i] = doc.dependencies[e].dependsOn[j] => i = j

FromIds(doc) == {doc.dependencies[e].ref : e \in 1..Len(doc.dependencies)}

\* the last edge of the document whose fromId is k
LastEdge(doc, k) ==
    doc.dependencies[CHOOSE e \in 1..Len(doc.dependencies) :
                        /\ doc.dependencies[e].ref = k
                        /\ \A f \in (e + 1)..Len(doc.dependencies) : doc.dependencies[f].ref # k]

\* a regular merge written out edge by edge on Map values
RECURSIVE RegularMerge(_, _)
RegularMerge(g, edges) ==
    IF edges = <<>> THEN g
    ELSE LET e == Head(edges)
             g1 == IF e.ref \in KeySet(g) THEN g ELSE Append(g, [node |-> e.ref, deps |-> <<>>])
             g2 == [i \in 1..Len(g1) |->
                      IF g1[i].node = e.ref
                      THEN [node |-> e.ref, deps |-> g1[i].deps \o FirstSeen(g1[i].deps, e.dependsOn)]
                      ELSE g1[i]]
         IN RegularMerge(g2, Tail(edges))

\* the admission rule as the specification words it
Admissible(g, doc) ==
    \/ Len(g) = 0
    \/ \A e \in 1..Len(doc.dependencies) :
          LET edge == doc.dependencies[e]
          IN edge.ref \in KeySet(g) =>
                /\ SetOf(edge.dependsOn) = SetOf(ListOf(g, edge.ref))
                /\ Len(edge.dependsOn) = Len(ListOf(g, edge.ref))

(***************************************************************************)
(* C1..C10                                                                 *)
(***************************************************************************)
\* C1: a regular-mode merge goes through the edges in document order and appends to
\* fromId's list exactly the ids of toIds not already in it, in first-seen order; so
\* the list every key had before the merge is a prefix of the list it has afterwards.
C1_RegularMergeAppends ==
    [][(Merged /\ ~sbom'.forceMode) =>
          /\ Graph' = RegularMerge(Graph, sbom'.dependencies)
          /\ \A k \in KeySet(Graph) :
                k \in KeySet(Graph') /\ IsPrefix(ListOf(Graph, k), ListOf(Graph', k))]_vars

\* C1 witness: a regular merge has appended to a key the graph already had
C1_Witness ==
    /\ Len(uploadedSboms) = 1 /\ ~sbom.forceMode
    /\ \E e \in 1..Len(sbom.dependencies) :
          /\ Len(sbom.dependencies[e].dependsOn) = 2
          /\ Len(ListOf(Graph, sbom.dependencies[e].ref)) = 3

\* C2: a force-mode merge sets the list of every fromId of the document to the toIds of
\* its (last) edge, leaves every other key and list as it was, and removes no key.
C2_ForceMergeReplaces ==
    [][(Merged /\ sbom'.forceMode) =>
          /\ IsPrefix(MapKeys(dependencyGraph), MapKeys(dependencyGraph'))
          /\ KeySet(Graph') = KeySet(Graph) \cup FromIds(sbom')
          /\ \A k \in KeySet(Graph') :
                ListOf(Graph', k) = IF k \in FromIds(sbom')
                                    THEN LastEdge(sbom', k).dependsOn
                                    ELSE ListOf(Graph, k)]_vars

\* C2 witness: a force merge with a repeated fromId has replaced a list and has left
\* alone a key that the document names only as a toId
C2_Witness ==
    /\ Len(uploadedSboms) = 1 /\ sbom.forceMode
    /\ Len(sbom.dependencies) = 2
    /\ sbom.dependencies[1].ref = sbom.dependencies[2].ref
    /\ sbom.dependencies[1].dependsOn # sbom.dependencies[2].dependsOn
    /\ \E k \in KeySet(Graph) \ FromIds(sbom) :
          /\ k \in SetOf(sbom.dependencies[2].dependsOn)
          /\ ListOf(Graph, k) # <<>>

\* C3: for a document whose toIds are unique within each edge, validate answers
\* admissible exactly when the graph is empty or every edge whose fromId is a key has
\* toIds equal, as a set and in length, to that key's list.
C3_ValidateIsTheRule ==
    (sbom.loaded /\ UniqueToIds(sbom)) =>
        (validateSbomForNonForceMode(dependencyGraph, heap, sbom).valid
            <=> Admissible(Graph, sbom))

\* C3 witness: a document that lists an existing key's dependencies in another order
\* was admitted and merged, the key's list staying as it was
C3_Witness ==
    /\ Len(uploadedSboms) = 1 /\ ~sbom.forceMode /\ UniqueToIds(sbom)
    /\ \E e \in 1..Len(sbom.dependencies) :
          LET edge == sbom.dependencies[e]
          IN /\ Len(edge.dependsOn) = 2
             /\ edge.dependsOn # ListOf(Graph, edge.ref)
             /\ validateSbomForNonForceMode(dependencyGraph, heap, sbom).valid

\* C4: every non-force document that gets merged, by nextStage or by
\* processSelectedSbom, is one that validate admits against the graph it is merged into.
C4_MergedWasValidated ==
    [][(Merged /\ ~sbom'.forceMode) =>
          validateSbomForNonForceMode(dependencyGraph, heap, sbom').valid]_vars

OnlyAdds(g, doc) ==
    \A e \in 1..Len(doc.dependencies) :
        LET edge == doc.dependencies[e]
        IN edge.ref \in KeySet(g) => SetOf(ListOf(g, edge.ref)) \subseteq SetOf(edge.dependsOn)

\* C7: a non-force document that only adds new dependencies or nodes, removing and
\* replacing none, passes validation.
C7_OnlyAddingPasses ==
    (sbom.loaded /\ ~sbom.forceMode /\ OnlyAdds(Graph, sbom)) =>
        validateSbomForNonForceMode(dependencyGraph, heap, sbom).valid

\* C8: a document none of whose fromIds is a key of the graph is admissible.
C8_NewFromIdsAdmissible ==
    (sbom.loaded /\ FromIds(sbom) \cap KeySet(Graph) = {}) =>
        validateSbomForNonForceMode(dependencyGraph, heap, sbom).valid

\* C8 witness: a non-empty graph and a document with two edges, from ids that are not
\* keys, to ids that are
C8_Witness ==
    /\ uploadedSboms = <<>> /\ sbom.loaded
    /\ Len(dependencyGraph) > 0
    /\ Len(sbom.dependencies) = 2
    /\ FromIds(sbom) \cap KeySet(Graph) = {}
    /\ \A e \in 1..2 : SetOf(sbom.dependencies[e].dependsOn) \cap KeySet(Graph) # {}
    /\ ListOf(Graph, dependencyGraph[1].node) # <<>>

\* the core of the object: graph, uploaded documents, history log and cursor
Core(st) ==
    [dependencyGraph |-> st.dependencyGraph, heap |-> st.heap,
     uploadedSboms |-> st.uploadedSboms, historyStates |-> st.historyStates,
     historyPosition |-> st.historyPosition, viewingHistory |-> st.viewingHistory,
     _currentGraph |-> st._currentGraph]

\* the loads that processSelectedSbom would reject in the current state
Rejections ==
    {ir \in (1..Len(pending)) \X RawDocs :
        /\ ~LogThrows(Cur, ir[1])
        /\ ~pending[ir[1]].isForceMode
        /\ ~validateSbomForNonForceMode(dependencyGraph, heap, Sbom(ir[2], FALSE)).valid
        /\ ~validateSbomForNonForceMode(dependencyGraph, heap, Sbom(ir[2], FALSE)).threw}

\* C6: when processSelectedSbom rejects a non-force document, it leaves the dependency
\* graph, the uploaded documents, the history entries and the history cursor exactly
\* as they were before the attempt.
C6_RejectionChangesNothing ==
    \A ir \in Rejections :
        Core(Collect(processSelectedSbomLoaded(Cur, ir[1], ir[2]))) = Core(Cur)

\* C6 witness: a non-force load is about to be rejected while the object is viewing
\* history, with documents uploaded and history entries to lose
C6_Witness ==
    /\ Rejections # {}
    /\ viewingHistory /\ _currentGraph # <<>>
    /\ Len(uploadedSboms) = 2
    /\ Len(historyStates) = 3

\* the step just taken called saveHistoryState
Snapshot ==
    \/ uploadedSboms' # uploadedSboms /\ ~UpdateThrows(sbom')
    \/ loadPhase = "loading" /\ loadPhase' = "done"

\* the history entry as a value
Entry(states, h, i) ==
    [dependencyGraph |-> Deref(states[i].dependencyGraph, h), sbomCount |-> states[i].sbomCount]

\* C9: once appended, the graph stored in a history entry is never changed by a later
\* merge, snapshot or history navigation for as long as the entry remains in the log.
C9_EntriesImmutable ==
    [][\A i \in 1..(IF Snapshot THEN Len(historyStates') - 1 ELSE Len(historyStates')) :
          Entry(historyStates', heap', i) = Entry(historyStates, heap, i)]_vars

\* the states in which the program calls saveHistoryState from the current state: in
\* init's then-callback, in nextStage and in processSelectedSbom
SnapshotPoints ==
    {updateDisplay([Cur EXCEPT !.loadPhase = "done"])}
    \cup (IF Len(sbomData) > 0 /\ currentStage < Len(sbomData) - 1
          THEN {PushAndUpdate([Cur EXCEPT !.currentStage = @ + 1], sbomData[currentStage + 2])}
          ELSE {})
    \cup {PushAndUpdate([Cur EXCEPT !.pending = RemoveAt(@, ir[1])],
                        Sbom(ir[2], pending[ir[1]].isForceMode)) :
            ir \in {jr \in (1..Len(pending)) \X RawDocs :
                      /\ ~LogThrows(Cur, jr[1])
                      /\ ~UpdateThrows(Sbom(jr[2], FALSE))
                      /\ \/ pending[jr[1]].isForceMode
                         \/ validateSbomForNonForceMode(dependencyGraph, heap,
                                                        Sbom(jr[2], FALSE)).valid}}

\* the arrays the object can reach other than through its i-th history entry
OtherRefs(st, i) ==
    SetOf(Refs(st.dependencyGraph))
    \cup UNION {SetOf(Refs(st._currentGraph[j])) : j \in 1..Len(st._currentGraph)}
    \cup UNION {SetOf(Refs(st.historyStates[j].dependencyGraph)) :
                    j \in (1..Len(st.historyStates)) \ {i}}

\* C10: saveHistoryState called with the cursor at p discards the entries after p,
\* appends one entry holding a deep copy of the graph and puts the cursor on it: the
\* log then has p + 2 entries, and entries 0..p are unchanged.
C10_SnapshotTruncatesAndAppends ==
    \A s1 \in SnapshotPoints :
        LET s2 == saveHistoryState(s1)
            p == s1.historyPosition
            tip == s2.historyStates[p + 2]
        IN /\ Len(s2.historyStates) = p + 2
           /\ s2.historyPosition = p + 1
           /\ \A i \in 1..(p + 1) :
                 Entry(s2.historyStates, s2.heap, i) = Entry(s1.historyStates, s1.heap, i)
           /\ Entry(s2.historyStates, s2.heap, p + 2) =
                 [dependencyGraph |-> Deref(s1.dependencyGraph, s1.heap),
                  sbomCount |-> Len(s1.uploadedSboms)]
           /\ SetOf(Refs(tip.dependencyGraph)) \cap OtherRefs(s2, p + 2) = {}
           /\ Cardinality(SetOf(Refs(tip.dependencyGraph))) = Len(tip.dependencyGraph)

\* C10 witness: a snapshot taken one step back from the tip has replaced the entry of
\* the first merge by the entry of the second
C10_Witness ==
    /\ Len(historyStates) = 2 /\ historyPosition = 1
    /\ historyStates[1].sbomCount = 0
    /\ historyStates[2].sbomCount = 2
    /\ Len(historyStates[2].dependencyGraph) > 0

(***************************************************************************)
(* C11..C20                                                                *)
(***************************************************************************)
\* a Map value as a mapping from its keys to their lists
AsMapping(g) == [k \in KeySet(g) |-> ListOf(g, k)]

\* the graph stored at the tip of the history log
TipGraph(states, h) == Entry(states, h, Len(states)).dependencyGraph

\* C11: after every successful merge, at the tip or while an earlier entry is viewed,
\* the current graph equals, as a mapping, the snapshot just appended at the tip.
C11_GraphIsTipAfterMerge ==
    [][(Merged /\ ~UpdateThrows(sbom')) => AsMapping(Graph') = AsMapping(TipGraph(historyStates', heap'))]_vars

\* the object after stepBackward followed by stepForward
RoundTrip == navigateHistoryForward(navigateHistoryBackward(Cur))

\* C12: with the cursor at the tip of a log of at least two entries, stepBackward then
\* stepForward leaves the displayed graph the mapping it was, and the cursor at the tip.
C12_BackThenForwardRestores ==
    (Len(historyStates) >= 2 /\ historyPosition = Len(historyStates) - 1) =>
        /\ AsMapping(Deref(RoundTrip.dependencyGraph, RoundTrip.heap)) = AsMapping(Graph)
        /\ RoundTrip.historyPosition = historyPosition

\* the entries of a log as values
Entries(st) == [i \in 1..Len(st.historyStates) |-> Entry(st.historyStates, st.heap, i)]

\* C13: stepBackward moves the cursor left by one above position 0 and does nothing at
\* position 0; stepForward moves it right by one below the tip and does nothing at the
\* tip; neither changes the number of entries or the contents of an entry.
C13_NavigationMovesCursorOnly ==
    LET b == navigateHistoryBackward(Cur)
        f == navigateHistoryForward(Cur)
    IN /\ IF historyPosition > 0 THEN b.historyPosition = historyPosition - 1 ELSE b = Cur
       /\ IF historyPosition < Len(historyStates) - 1
          THEN f.historyPosition = historyPosition + 1 ELSE f = Cur
       /\ Entries(b) = Entries(Cur)
       /\ Entries(f) = Entries(Cur)

\* C13 witness: stepBackward has brought the cursor to position 0 of a log of three
\* entries, where it does nothing more and stepForward moves
C13_Witness ==
    /\ historyPosition = 0 /\ viewingHistory
    /\ Len(historyStates) = 3
    /\ historyStates[3].dependencyGraph # <<>>

\* C14: once the history log has an entry, its first entry is the empty initial graph
\* with document count 0, however the initial load interleaves with merges.
C14_FirstEntryIsEmptyGraph ==
    Len(historyStates) > 0 =>
        Entry(historyStates, heap, 1) = [dependencyGraph |-> <<>>, sbomCount |-> 0]

\* C15: merging a document with no edges leaves the dependency graph unchanged and
\* appends a new history entry, with the cursor on it.
C15_EmptyDocumentOnlySnapshots ==
    [][(Merged /\ sbom'.dependencies = <<>>) =>
          /\ Graph' = Graph
          /\ Len(historyStates') = historyPosition + 2
          /\ historyPosition' = Len(historyStates') - 1]_vars

\* the graph and heap after one merge of sbom, and after a second one
MergedOnce == updateDependencyGraph(dependencyGraph, heap, sbom)
MergedTwice == updateDependencyGraph(MergedOnce.g, MergedOnce.h, sbom)

\* sbom is a non-force document that validate admits before each of the two merges
AdmissibleTwice ==
    /\ sbom.loaded /\ ~sbom.forceMode
    /\ validateSbomForNonForceMode(dependencyGraph, heap, sbom).valid
    /\ validateSbomForNonForceMode(MergedOnce.g, MergedOnce.h, sbom).valid

\* C16: merging the same non-force document twice in a row, when it is admissible both
\* times, yields the same graph as merging it once.
C16_RegularMergeIdempotent ==
    AdmissibleTwice => Deref(MergedTwice.g, MergedTwice.h) = Deref(MergedOnce.g, MergedOnce.h)

\* C16 witness: a document admissible twice whose first merge adds a key with a
\* dependency to a non-empty graph
C16_Witness ==
    /\ uploadedSboms = <<>> /\ AdmissibleTwice
    /\ Len(dependencyGraph) = 1
    /\ Len(MergedOnce.g) = 2
    /\ \A i \in 1..2 : MergedOnce.h[MergedOnce.g[i].deps] # <<>>

\* the force uploads that are waiting for their load
ForceLoads ==
    {ir \in (1..Len(pending)) \X RawDocs :
        pending[ir[1]].isForceMode /\ ~UpdateThrows(Sbom(ir[2], TRUE))}

\* C17: once a confirmed force upload has loaded, whatever happened while it was
\* loading, the document is in the uploaded documents and a new history entry holding
\* the document's lists has been appended.
C17_ForceUploadAlwaysMerges ==
    \A ir \in ForceLoads :
        LET doc == Sbom(ir[2], TRUE)
            st == processSelectedSbomLoaded(Cur, ir[1], ir[2])
            tip == TipGraph(st.historyStates, st.heap)
        IN /\ st.uploadedSboms = Append(uploadedSboms, doc)
           /\ Len(st.historyStates) = historyPosition + 2
           /\ \A k \in FromIds(doc) :
                 k \in KeySet(tip) /\ ListOf(tip, k) = LastEdge(doc, k).dependsOn

\* C19: when the load of a document fails, processSelectedSbom leaves the dependency
\* graph, the uploaded documents, the history entries and the cursor as they were, and
\* the call is over: nothing is loaded again.
C19_LoadFailureChangesNothing ==
    \A i \in 1..Len(pending) :
        LET st == processSelectedSbomFailed(Cur, i)
        IN /\ Core(st) = Core(Cur)
           /\ st.pending = RemoveAt(pending, i)

\* C19 witness: a load is in flight while the object views history with two documents
\* uploaded
C19_Witness ==
    /\ pending # <<>>
    /\ viewingHistory /\ _currentGraph # <<>>
    /\ Len(uploadedSboms) = 2
    /\ dependencyGraph # <<>>

\* the loads of a document with an element that has no dependsOn
MalformedLoads ==
    {ir \in (1..Len(pending)) \X RawDocs : UpdateThrows(Sbom(ir[2], pending[ir[1]].isForceMode))}

\* C18: a document of malformed shape is rejected before the merge: the graph, the
\* uploaded documents and the history log are as they were, and no part of the
\* document has been applied.
C18_MalformedChangesNothing ==
    \A ir \in MalformedLoads :
        Core(Collect(processSelectedSbomLoaded(Cur, ir[1], ir[2]))) = Core(Cur)

\* C20: the layout gives a level and a coordinate to every key and every value of the
\* graph, a node the traversal does not reach getting level 0.
C20_EveryNodePlaced ==
    Len(dependencyGraph) > 0 =>
        /\ AllNodes(Graph) \subseteq Levelled(calculateNodeLevels(Graph))
        /\ AllNodes(Graph) \subseteq
              {e.node : e \in SetOf(calculateNodePositions(Graph, containerRect))}

(***************************************************************************)
(* The keys and the lists of the graph                                     *)
(***************************************************************************)
\* no key of the Map value g has an empty list
NoEmptyList(g) == \A i \in 1..Len(g) : g[i].deps # <<>>

\* no list of the Map value g has an id twice
NoDups(g) == \A i \in 1..Len(g) : \A j, k \in 1..Len(g[i].deps) :
                g[i].deps[j] = g[i].deps[k] => j = k

\* C22: no key of the dependency graph has an empty dependency list: a merge, regular
\* or force, of any document into a graph without empty list leaves a graph without
\* empty list, so that a node without outgoing edge never becomes a key.
C22_NoKeyWithEmptyList ==
    [][Merged /\ NoEmptyList(Graph) => NoEmptyList(Graph')]_vars

\* C23: a merge, regular or force, makes a key of every fromId of the document and of
\* nothing else: the keys after the merge are the keys before it and the fromIds of the
\* document's edges; from the empty graph, the keys are the fromIds of the merged
\* documents.
C23_KeysAreFromIds ==
    [][Merged => KeySet(Graph') = KeySet(Graph) \cup FromIds(sbom')]_vars

\* C23 witness: a document with an edge without dependencies has been merged into a
\* graph that had another key: both are keys, the one of the empty edge too
C23_Witness ==
    /\ Len(uploadedSboms) = 1
    /\ FromIds(sbom) = {"a"}
    /\ KeySet(Graph) = {"a", "b"}
    /\ \A e \in 1..Len(sbom.dependencies) : sbom.dependencies[e].dependsOn = <<>>
    /\ ListOf(Graph, "a") = <<>>

\* C29: a merge, regular or force, of a document whose toIds are unique within each
\* edge into a graph whose lists are duplicate-free leaves every list duplicate-free.
C29_ListsStayDuplicateFree ==
    [][Merged /\ UniqueToIds(sbom') /\ NoDups(Graph) => NoDups(Graph')]_vars

\* C29 witness: a regular document with two edges for the same fromId, both naming the
\* same id, has been merged and the list has the id once
C29_Witness ==
    /\ Len(uploadedSboms) = 1
    /\ UniqueToIds(sbom)
    /\ sbom.forceMode = FALSE
    /\ sbom.dependencies = <<Dep("a", <<"b">>), Dep("a", <<"b">>)>>
    /\ NoDups(Graph)
    /\ ListOf(Graph, "a") = <<"b">>

(***************************************************************************)
(* One event at a time                                                     *)
(***************************************************************************)
\* the graph updateDependencyGraph makes of the current graph and doc, as a value
MergeOf(doc) ==
    LET gh == updateDependencyGraph(dependencyGraph, heap, doc) IN Deref(gh.g, gh.h)

\* C24: the admission check, the merge and the snapshot of one document are one step:
\* whatever loads are pending, the step that pushes a document merges it into the graph
\* the step started from, the graph it was validated against when processSelectedSbom
\* admitted it, and appends that merge result as the tip with the new document count
\* and the cursor on it; the other loads stay pending. A merge that throws leaves the
\* graph it had reached and takes no snapshot.
C24_MergeIsOneStep ==
    [][Merged =>
         /\ IF UpdateThrows(sbom')
            THEN /\ Graph' = MergeOf(sbom')
                 /\ Entries(Cur)' = Entries(Cur)
            ELSE /\ TipGraph(historyStates', heap') = MergeOf(sbom')
                 /\ historyStates'[Len(historyStates')].sbomCount = Len(uploadedSboms')
                 /\ historyPosition' = Len(historyStates') - 1
                 /\ ~viewingHistory'
         /\ pending' # pending =>
              /\ \E i \in 1..Len(pending) :
                    /\ pending' = RemoveAt(pending, i)
                    /\ sbom'.forceMode = pending[i].isForceMode
              /\ sbom'.forceMode = FALSE =>
                    validateSbomForNonForceMode(dependencyGraph, heap, sbom').valid
         /\ pending' = pending => currentStage' = currentStage + 1]_vars

\* C24 witness: the fixed sequence is still loading and a custom load is in flight
\* while two documents have been merged and snapshotted, the second onto a non-empty
\* graph
C24_Witness ==
    /\ loadPhase = "loading"
    /\ pending # <<>>
    /\ Len(uploadedSboms) = 2
    /\ Len(historyStates) = 2
    /\ historyStates[2].sbomCount = 2
    /\ TipGraph(historyStates, heap) = Graph
    /\ Graph # <<>>

(***************************************************************************)
(* The picker                                                              *)
(***************************************************************************)
\* the load a confirmation starts in the object st (the last of its pending loads)
Confirmed(st, isForceMode) ==
    LET after == processSelectedSbomStart(st, isForceMode)
    IN after.pending[Len(after.pending)]

\* C30: the picker holds at most one pending selection, and the later choice wins:
\* after a listed document then an upload file are chosen, a confirmation loads the
\* upload file; after an upload file then a listed document, it loads the listed one.
C30_LastChoiceWins ==
    /\ ~(selectedSbomFile # NoFile /\ customFileUpload # NoFile)
    /\ \A path \in AvailableSbomFiles : \A isForceMode \in BOOLEAN :
         /\ LET st == selectUpload(selectListed(Cur, path), UploadFile)
            IN /\ st.selectedSbomFile = NoFile
               /\ Confirmed(st, isForceMode).source = UploadFile
               /\ ~Confirmed(st, isForceMode).listed
         /\ LET st == selectListed(selectUpload(Cur, UploadFile), path)
            IN /\ st.customFileUpload = NoFile
               /\ Confirmed(st, isForceMode).source = path
               /\ Confirmed(st, isForceMode).listed

\* C30 witness: the upload file was chosen and confirmed, its load is in flight, and a
\* listed document has been chosen since: the upload is cleared
C30_Witness ==
    /\ pending # <<>>
    /\ pending[1].source = UploadFile
    /\ ~pending[1].listed
    /\ selectedSbomFile \in AvailableSbomFiles
    /\ customFileUpload = NoFile

(***************************************************************************)
(* The layout on its own: Init draws a graph over three ids and a          *)
(* viewport, the one action is renderGraph() on the empty nodePositions.   *)
(***************************************************************************)
LayoutIds == {"a", "b", "c"}

MaxLayoutSize == 5   \* keys plus dependency entries of a drawn graph

Viewports == {[width |-> 300, height |-> 300], [width |-> 400, height |-> 250]}

\* the edge lists over LayoutIds of total size at most n
RECURSIVE LayoutDependenciesUpTo(_)
LayoutDependenciesUpTo(n) ==
    IF n <= 0 THEN {<<>>}
    ELSE {<<>>} \cup
         UNION {{<<Dep(r, ds)>> \o rest : rest \in LayoutDependenciesUpTo(n - 1 - Len(ds))} :
                r \in LayoutIds, ds \in SeqsUpTo(LayoutIds, n - 1)}

LayoutGraphs == {deps \in LayoutDependenciesUpTo(MaxLayoutSize) : DistinctRefs(deps)}

InitLayout ==
    \E deps \in LayoutGraphs : \E rect \in Viewports :
        Starts([Holding(deps, NoSbom) EXCEPT !.containerRect = rect])

RenderGraph ==
    /\ nodePositions = <<>>
    /\ dependencyGraph # <<>>
    /\ \E st \in {renderGraph(Cur)} : Becomes(st)

NextLayout == RenderGraph

SpecLayout == InitLayout /\ [][NextLayout]_vars

(***************************************************************************)
(* Levels and coordinates                                                  *)
(***************************************************************************)
\* a step in which the program draws the graph: a merge that does not throw, or a
\* history navigation that moves the cursor
Renders ==
    \/ Merged /\ ~UpdateThrows(sbom')
    \/ historyPosition' # historyPosition /\ uploadedSboms' = uploadedSboms

\* C21: the coordinates mapping exposed after rendering depends only on the displayed
\* graph and the viewport: after every step that draws a non-empty graph, nodePositions
\* is the mapping the layout computes for that graph and viewport alone.
C21_LayoutDeterministic ==
    [][Renders /\ Graph' # <<>> =>
         SetOf(nodePositions') = SetOf(calculateNodePositions(Graph', containerRect'))]_vars

\* the keys without incoming edge, as a set
NoIncomingKeys(g) ==
    {k \in KeySet(g) : \A i \in 1..Len(g) : \A j \in 1..Len(g[i].deps) : g[i].deps[j] # k}

\* the nodes a path of at most k edges from a key without incoming edge leads to
RECURSIVE Within(_, _)
Within(g, k) ==
    IF k = 0 THEN NoIncomingKeys(g)
    ELSE LET near == Within(g, k - 1)
         IN near \cup {n \in AllNodes(g) :
                         \E i \in 1..Len(g) : g[i].node \in near /\ n \in SetOf(g[i].deps)}

\* the nodes a path from a root leads to, and the length of a shortest such path
Reachable(g) == Within(g, Cardinality(AllNodes(g)))
Distance(g, n) == CHOOSE k \in 0..Cardinality(AllNodes(g)) :
                     /\ n \in Within(g, k)
                     /\ \A j \in 0..(k - 1) : n \notin Within(g, j)

\* the nodes the while loop of calculateNodeLevels gives a level to
Reached(g) ==
    LET roots == Roots(g)
    IN Levelled(Traverse(g, [i \in 1..Len(roots) |-> [node |-> roots[i], level |-> 0]], <<>>))

\* C25: calculateNodeLevels gives level 0 to every root and to every node a path from
\* a root leads to the length of a shortest such path, each node once; hence
\* level(v) <= level(u) + 1 for every edge u -> v between such nodes.
C25_LevelsAreShortestPaths ==
    LET levels == calculateNodeLevels(Graph)
    IN /\ \A n \in NoIncomingKeys(Graph) : LevelOf(levels, n) = 0
       /\ \A n \in Reachable(Graph) :
            /\ Cardinality({i \in 1..Len(levels) : levels[i].node = n}) = 1
            /\ LevelOf(levels, n) = Distance(Graph, n)
       /\ \A i \in 1..Len(Graph) : \A v \in SetOf(Graph[i].deps) :
            Graph[i].node \in Reachable(Graph) =>
                LevelOf(levels, v) <= LevelOf(levels, Graph[i].node) + 1

\* C25 witness: a drawn graph in which c is both a dependency of the root a and of a's
\* dependency b: the shorter path decides
C25_Witness ==
    /\ nodePositions # <<>>
    /\ Graph = <<[node |-> "a", deps |-> <<"b", "c">>], [node |-> "b", deps |-> <<"c">>]>>
    /\ LevelOf(calculateNodeLevels(Graph), "c") = 1

\* C26, as stated: a node is left unreached by the traversal only when the graph has no
\* roots at all; whenever the graph has a root, every node of the graph is reached.
C26_UnreachedOnlyWithoutRoots ==
    Roots(Graph) # <<>> => AllNodes(Graph) \subseteq Reached(Graph)

\* C26, amended: the traversal reaches exactly the nodes a path from a root leads to;
\* a node left unreached has an incoming edge, and a graph without roots has every
\* node unreached, but a graph with a root may leave nodes unreached too.
C26_UnreachedHaveNoPathFromRoot ==
    /\ Reached(Graph) = Reachable(Graph)
    /\ \A n \in AllNodes(Graph) \ Reached(Graph) : n \in HasIncoming(Graph)
    /\ Roots(Graph) = <<>> => Reached(Graph) = {}

\* C26 witness: a drawn graph with the root a and the node b that only its own edge
\* leads to: b is unreached although the graph has a root
C26_Witness ==
    /\ nodePositions # <<>>
    /\ Roots(Graph) = <<"a">>
    /\ "b" \in KeySet(Graph) \ Reached(Graph)
    /\ "a" \in Reached(Graph)

\* C27: level assignment returns for every finite graph, with cycles or without roots
\* too, one natural level for every key.
C27_EveryKeyGetsOneLevel ==
    LET levels == calculateNodeLevels(Graph)
    IN \A k \in KeySet(Graph) :
         /\ Cardinality({i \in 1..Len(levels) : levels[i].node = k}) = 1
         /\ LevelOf(levels, k) \in Nat

\* C27 witness: a drawn graph without roots, a cycle through its two keys, and both
\* have a place
C27_Witness ==
    /\ nodePositions # <<>>
    /\ Roots(Graph) = <<>>
    /\ KeySet(Graph) = {"a", "b"}
    /\ "b" \in SetOf(ListOf(Graph, "a")) /\ "a" \in SetOf(ListOf(Graph, "b"))
    /\ {nodePositions[i].node : i \in 1..Len(nodePositions)} = {"a", "b"}

\* the fraction q is the number num / den
Is(q, num, den) == q.num * den = num * q.den

\* C28: a layout gives the i-th (i = 1..n) of the n nodes of a level
\* x = 50 + i * (W / (n + 1)) and y = 50 + level * (H / (maxLevel + 1)), W and H being
\* the viewport's width and height less the two margins of 50; no two nodes it places
\* get the same coordinates; the chain a -> b -> c gets the levels 0, 1, 2 and, in a
\* viewport 300 wide, x = 150 for each of its nodes.
C28_CoordinatesFollowFormula ==
    LET levels == calculateNodeLevels(Graph)
        W == containerRect.width - 100
        H == containerRect.height - 100
        maxLevel == CHOOSE m \in 0..Len(levels) :
                       /\ \E i \in 1..Len(levels) : levels[i].level = m
                       /\ \A i \in 1..Len(levels) : levels[i].level <= m
        Level(k) == LevelOf(levels, nodePositions[k].node)
    IN nodePositions # <<>> =>
         /\ {nodePositions[k].node : k \in 1..Len(nodePositions)} = Levelled(levels)
         /\ \A k \in 1..Len(nodePositions) :
              LET n == Cardinality({j \in 1..Len(nodePositions) : Level(j) = Level(k)})
                  i == Cardinality({j \in 1..k : Level(j) = Level(k)})
              IN /\ Is(nodePositions[k].pos.x, 50 * (n + 1) + i * W, n + 1)
                 /\ Is(nodePositions[k].pos.y, 50 * (maxLevel + 1) + Level(k) * H, maxLevel + 1)
         /\ \A j, k \in 1..Len(nodePositions) :
              nodePositions[j].pos = nodePositions[k].pos => j = k
         /\ (/\ Graph = <<[node |-> "a", deps |-> <<"b">>], [node |-> "b", deps |-> <<"c">>]>>
             /\ containerRect.width = 300) =>
              /\ levels = <<[node |-> "a", level |-> 0], [node |-> "b", level |-> 1],
                            [node |-> "c", level |-> 2]>>
              /\ \A k \in 1..3 : nodePositions[k].pos.x = [num |-> 150, den |-> 1]

\* C28 witness: the chain a -> b -> c drawn in the viewport 300 wide
C28_Witness ==
    /\ Graph = <<[node |-> "a", deps |-> <<"b">>], [node |-> "b", deps |-> <<"c">>]>>
    /\ containerRect.width = 300
    /\ Len(nodePositions) = 3

(***************************************************************************)
(* The cursor and the log                                                  *)
(***************************************************************************)
\* C32: the history log is well formed in every reachable state: it is empty with the
\* cursor at -1, or the cursor is between 0 and the number of entries less one; and
\* viewingHistory is true exactly when the cursor is below the tip.
C32_LogWellFormed ==
    /\ IF historyStates = <<>> THEN historyPosition = -1
       ELSE historyPosition \in 0..(Len(historyStates) - 1)
    /\ viewingHistory <=> historyPosition < Len(historyStates) - 1

\* C32 witness: the cursor is on the middle one of three entries
C32_Witness ==
    /\ Len(historyStates) = 3
    /\ historyPosition = 1
    /\ viewingHistory

\* C33: after a step that draws the graph, a merge or a history navigation, every
\* identifier with a position in nodePositions is a key or a value of the displayed
\* graph.
C33_PositionsOnlyForDisplayedNodes ==
    [][Renders => {nodePositions'[k].node : k \in 1..Len(nodePositions')}
                    \subseteq AllNodes(Graph')]_vars

(***************************************************************************)
(* Merging below the tip: Init is the object after init() has loaded the   *)
(* fixed sequence and taken the first snapshot, with one custom upload     *)
(* confirmed and its load in flight; the actions are nextStage, the two    *)
(* navigations and the completion of the load.                             *)
(***************************************************************************)
MaxUploads == 3      \* documents pushed onto uploadedSboms in one run

\* the object once the fixed sequence d1, d2 is loaded, the upload file chosen and
\* confirmed with the checkbox at isForceMode
Uploading(d1, d2, isForceMode) ==
    processSelectedSbomStart(
        selectUpload(fileLoaded(fileLoaded(Constructed, d1), d2), UploadFile),
        isForceMode)

InitBranch ==
    \E d1, d2 \in StageDocs : \E isForceMode \in BOOLEAN :
        Starts(Collect(Uploading(d1, d2, isForceMode)))

NextStageBranch ==
    /\ ~nextButtonDisabled
    /\ Len(sbomData) > 0 /\ currentStage < Len(sbomData) - 1
    /\ Len(uploadedSboms) < MaxUploads
    /\ \E st \in {Collect(nextStageOrSkip(Cur))} : Becomes(st)

SbomLoadedBranch ==
    \E i \in 1..Len(pending) : \E raw \in RawDocs :
        /\ Len(uploadedSboms) < MaxUploads
        /\ \E st \in {Collect(processSelectedSbomLoaded(Cur, i, raw))} : Becomes(st)

NextBranch ==
    \/ NextStageBranch
    \/ NavigateHistoryBackward
    \/ NavigateHistoryForward
    \/ SbomLoadedBranch

SpecBranch == InitBranch /\ [][NextBranch]_vars

\* the graph updateDependencyGraph makes of the Map value g and doc, as a value
MergeInto(g, doc) ==
    LET gh == updateDependencyGraph([i \in 1..Len(g) |-> [node |-> g[i].node, deps |-> i]],
                                    [i \in 1..Len(g) |-> g[i].deps], doc)
    IN Deref(gh.g, gh.h)

\* C31: when a document is merged while the cursor is below the tip, the entry
\* appended to the log is the result of merging the document into the graph the entry
\* at the cursor had before the merge, and the entries after the cursor are discarded:
\* the new entry comes right after the cursor's.
C31_MergeBelowTipBranchesFromCursor ==
    [][(/\ Merged
        /\ ~UpdateThrows(sbom')
        /\ historyPosition < Len(historyStates) - 1) =>
         /\ Len(historyStates') = historyPosition + 2
         /\ TipGraph(historyStates', heap') =
              MergeInto(Entry(historyStates, heap, historyPosition + 1).dependencyGraph, sbom')]_vars

(***************************************************************************)
(* The fixed sequence                                                      *)
(***************************************************************************)
\* C34: nextStage merges the documents of the fixed sequence in sequence order, each
\* at most once: currentStage stays within -1 .. (number of loaded documents - 1);
\* it changes only in a step of nextStage, by exactly one, and that step merges the
\* document at the new stage; a step of history navigation or of a custom upload
\* leaves it; and with no next document loaded nextStage changes nothing.
C34_StagesInOrder ==
    [][/\ currentStage \in -1..(Len(sbomData) - 1)
       /\ currentStage' \in -1..(Len(sbomData') - 1)
       /\ currentStage' # currentStage =>
            /\ currentStage' = currentStage + 1
            /\ Merged
            /\ pending' = pending
            /\ sbom' = sbomData[currentStage' + 1]
       /\ (historyPosition' # historyPosition /\ ~Merged) => currentStage' = currentStage
       /\ pending' # pending => currentStage' = currentStage
       /\ currentStage >= Len(sbomData) - 1 => nextStageOrSkip(Cur) = Cur]_vars

\* C34 witness: both documents of the fixed sequence have been merged, the button is
\* disabled, and the history has been navigated since
C34_Witness ==
    /\ Len(sbomData) = NumFiles
    /\ currentStage = NumFiles - 1
    /\ Len(uploadedSboms) = NumFiles
    /\ nextButtonDisabled
    /\ viewingHistory

====
